---- MODULE Spec2Model ----
(***************************************************************************)
(* Currency engine of the mileage tracker: the Mileage_Logs sheet, the     *)
(* mileage form that appends to it, and the two cached calculations        *)
(* SheetsManager.calculate_3_month_distance and                            *)
(* SheetsManager.calculate_expiry_date.                                    *)
(*                                                                         *)
(* Time is counted in seconds (datetime values); a calendar date is a day  *)
(* number, and the "%Y-%m-%d" string of a date is represented by that day  *)
(* number (the strings are zero padded, so their lexicographic order is    *)
(* the order of the day numbers).  Distances are Python floats: they are   *)
(* modelled as binary floating point numbers with MantissaBits significant *)
(* bits, held as integer multiples of 1/Scale km.                          *)
(***************************************************************************)
EXTENDS Integers, Sequences, FiniteSets, TLC

VARIABLES mileage_worksheet, now, cache_distance, cache_expiry, ret, last_status,
          terrex_worksheet, belrex_worksheet, fitness_tracker,
          cache_personnel, session_cache, submitted, answered,
          tracking_sheet,
          rate_limits,
          load_monitor,
          requests_made,
          credentials,
          session_state,
          user_management_worksheet,
          delete_requested

vars == <<mileage_worksheet, now, cache_distance, cache_expiry, ret, last_status,
          terrex_worksheet, belrex_worksheet, fitness_tracker,
          cache_personnel, session_cache, submitted, answered,
          tracking_sheet,
          rate_limits,
          load_monitor,
          requests_made,
          credentials,
          session_state,
          user_management_worksheet,
          delete_requested>>

\* The sheets that the mileage operations never write.
other_sheets == <<terrex_worksheet, belrex_worksheet, fitness_tracker>>

\* The state of the currency engine apart from the clock and the last answer.
engine == <<mileage_worksheet, cache_distance, cache_expiry, last_status,
            other_sheets, cache_personnel, session_cache, submitted, answered>>

\* The load monitor with the log of the requests, and the accounts.
load == <<load_monitor, requests_made>>
accounts == <<credentials, session_state>>

\* The User_Management worksheet, and the account that the last press of
\* Delete Account was made for (a record of the past for the properties).
roles == <<user_management_worksheet, delete_requested>>

\* The state of the application outside the currency engine.
app_state == <<tracking_sheet, rate_limits, load, accounts, roles>>

(***************************************************************************)
(* Bounds of the model.                                                    *)
(***************************************************************************)
MaxLog == 2
MaxReorder == 3
MaxTeam == 2
MaxWorkouts == 2
MaxCacheClock == 240
MaxMalformed == 2
MaxRateClock == 60
MaxLoadClock == 31
MaxRequests == 202
MaxPersonnel == 2
MaxDay == 91
MaxClock == 900
MantissaBits == 5

(***************************************************************************)
(* Program constants.                                                      *)
(***************************************************************************)
SecondsPerDay == 86400
WindowDays == 90
ValidityDays == 90
CacheTTL == 1800
PersonnelTTL == 900
SessionCacheTTL == 600
SessionCleanupAge == 120
ExpiringSoonDays == 14
FitnessWindowDays == 30
RateWindow == 60
RateLimit == 20
CheckInterval == 30
LoadWindow == 300
UserThreshold == 50
RequestThreshold == 200
MinPasswordLength == 6
DefaultPassword == "secret123"

\* Python's None, and the two kinds of value calculate_expiry_date returns:
\* the string "N/A" and the "%Y-%m-%d" string of a date.
None == << >>
NA == [text |-> "N/A"]
DateString(date) == [date |-> date]

\* The accounts of the model: a built-in test account and an account whose
\* qualifications are read from the tracker sheets.
Users == {"trooper1", "driver1"}
VehicleTypes == {"Terrex", "Belrex"}
Keys == Users \X VehicleTypes

\* The argument tuples the model calls the two calculations with.
QueryKeys == {<<"trooper1", "Terrex">>}

\* Inputs of the model: the odometer readings typed into the form (tenths of
\* a km), how far back the date picker is set, and the steps of the clock.
InitialReadings == {0}
FinalReadings == {6, 7, 20}
BackDays == {0}
VehicleNos == {"MID1"}
ClockSteps == {900, 89 * SecondsPerDay, 90 * SecondsPerDay, 91 * SecondsPerDay}

(***************************************************************************)
(* Python floats.                                                          *)
(***************************************************************************)
RECURSIVE Pow2(_)
Pow2(n) == IF n = 0 THEN 1 ELSE 2 * Pow2(n - 1)

Scale == Pow2(MantissaBits + 3)

RECURSIVE Exponent(_, _, _)
Exponent(n, d, e) ==
    IF n < d * Pow2(MantissaBits + e) THEN e ELSE Exponent(n, d, e + 1)

\* n/d (in units of 1/Scale km) rounded to MantissaBits significant bits,
\* ties to even.
RoundFloat(n, d) ==
    IF n = 0 THEN 0
    ELSE LET e == Exponent(n, d, 0)
             u == d * Pow2(e)
             q == n \div u
             r == n % u
             up == (2 * r > u) \/ (2 * r = u /\ q % 2 = 1)
         IN  (IF up THEN q + 1 ELSE q) * Pow2(e)

\* The float of a decimal number given in tenths.
FloatOfTenths(t) == RoundFloat(t * Scale, 10)

FAdd(a, b) == RoundFloat(a + b, 1)

FSub(a, b) == RoundFloat(a - b, 1)

CURRENCY_THRESHOLD == FloatOfTenths(20)

(***************************************************************************)
(* Dates.                                                                  *)
(***************************************************************************)
\* datetime.strptime(s, "%Y-%m-%d"): the datetime at 00:00:00 of the date.
strptime(date) == date * SecondsPerDay

\* dt.strftime("%Y-%m-%d") and dt.date(): the calendar date of a datetime.
strftime(t) == t \div SecondsPerDay

timedelta(days) == days * SecondsPerDay

\* A Date_of_Drive cell that strptime rejects, such as "31/12/2024": as a
\* string it is above every "%Y-%m-%d" date of the model.  A
\* Distance_Driven_KM cell that float rejects, such as the empty string.
BadDate == 1000000

BadDistance == -1

(***************************************************************************)
(* The tracker sheets and check_user_qualifications.  A cell that holds a  *)
(* number is Number(n), a cell that holds no number is the text "N/A".      *)
(***************************************************************************)
Number(n) == [num |-> n]

\* The row of driver1 in Terrex_Tracker: qualified, in platoon P1.
RosterRow ==
    [Username |-> "driver1", Platoon |-> "P1", Qualification |-> "Q",
     Qualification_Date |-> "2024-01-01", Currency_Maintained |-> "NO",
     Days_to_Expiry |-> NA]

TerrexRoster == << RosterRow >>

BelrexRoster == << >>

BuiltInAccounts == {"admin", "trooper1", "trooper2", "commander"}

\* The loop over the records of one tracker sheet: the first row of the user
\* decides.
RECURSIVE qualified_in(_, _, _)
qualified_in(records, username, i) ==
    IF i > Len(records) THEN FALSE
    ELSE IF records[i].Username = username
         THEN records[i].Qualification # "" /\ records[i].Qualification_Date # ""
         ELSE qualified_in(records, username, i + 1)

\* The vehicle types for which the returned dictionary holds True.
check_user_qualifications(username) ==
    IF username \in BuiltInAccounts THEN {"Terrex", "Belrex"}
    ELSE {v \in {"Terrex"} : qualified_in(terrex_worksheet, username, 1)}
         \cup {v \in {"Belrex"} : qualified_in(belrex_worksheet, username, 1)}

(***************************************************************************)
(* calculate_3_month_distance, the function under the cache decorator.     *)
(***************************************************************************)
\* Mutant: the vehicle type is not compared.
user_records_any_vehicle(records, username, vehicle_type) ==
    SelectSeq(records, LAMBDA r : r.Username = username)

\* [r for r in records if r.get('Username') == username
\*                     and r.get('Vehicle_Type') == vehicle_type]
user_records(records, username, vehicle_type) ==
    SelectSeq(records, LAMBDA r : r.Username = username
                                  /\ r.Vehicle_Type = vehicle_type)

\* Mutant: every record is added, whatever its date.
RECURSIVE window_loop_all(_, _, _, _)
window_loop_all(urs, three_months_ago, i, total_distance) ==
    IF i > Len(urs) THEN total_distance
    ELSE window_loop_all(urs, three_months_ago, i + 1,
                         FAdd(total_distance, urs[i].Distance_Driven_KM))

\* The for loop over user_records: i is the next index, total the sum so far.
\* A ValueError of strptime or of float leaves the total as it is.
RECURSIVE window_loop(_, _, _, _)
window_loop(urs, three_months_ago, i, total_distance) ==
    IF i > Len(urs) THEN total_distance
    ELSE IF urs[i].Date_of_Drive = BadDate
    THEN window_loop(urs, three_months_ago, i + 1, total_distance)
    ELSE LET record_date == strptime(urs[i].Date_of_Drive)
         IN  window_loop(urs, three_months_ago, i + 1,
                 IF /\ record_date >= three_months_ago
                    /\ urs[i].Distance_Driven_KM # BadDistance
                 THEN FAdd(total_distance, urs[i].Distance_Driven_KM)
                 ELSE total_distance)

distance_body(records, username, vehicle_type, clock) ==
    LET urs == user_records(records, username, vehicle_type)
    IN  IF urs = << >> THEN 0
        ELSE window_loop(urs, clock - timedelta(WindowDays), 1, 0)

(***************************************************************************)
(* calculate_expiry_date, the function under the cache decorator.          *)
(***************************************************************************)
\* list.sort(key=Date_of_Drive, reverse=True): a stable sort, records of the
\* same date keep the order they had.
RECURSIVE insert_desc(_, _)
insert_desc(sorted, r) ==
    IF sorted = << >> THEN << r >>
    ELSE IF Head(sorted).Date_of_Drive >= r.Date_of_Drive
         THEN << Head(sorted) >> \o insert_desc(Tail(sorted), r)
         ELSE << r >> \o sorted

RECURSIVE sort_desc_from(_, _, _)
sort_desc_from(urs, i, sorted) ==
    IF i > Len(urs) THEN sorted
    ELSE sort_desc_from(urs, i + 1, insert_desc(sorted, urs[i]))

\* Mutant: the records are walked in the order of the sheet.
sort_desc_none(urs) == urs

sort_desc(urs) == sort_desc_from(urs, 1, << >>)

\* Mutant: when the total never reaches 2.0 the last record walked anchors.
RECURSIVE anchor_loop_last(_, _, _)
anchor_loop_last(urs, i, cumulative_distance) ==
    IF i > Len(urs)
    THEN IF urs = << >> THEN None
         ELSE [datetime |-> strptime(urs[Len(urs)].Date_of_Drive)]
    ELSE LET c == FAdd(cumulative_distance, urs[i].Distance_Driven_KM)
         IN  IF c >= CURRENCY_THRESHOLD
             THEN [datetime |-> strptime(urs[i].Date_of_Drive)]
             ELSE anchor_loop_last(urs, i + 1, c)

\* The for loop over the sorted records: the date of the first record at
\* which the running total is at least 2.0, or None.  A ValueError of float
\* leaves the total as it is; a ValueError of strptime comes after the
\* distance has been added.
RECURSIVE anchor_loop(_, _, _)
anchor_loop(urs, i, cumulative_distance) ==
    IF i > Len(urs) THEN None
    ELSE IF urs[i].Distance_Driven_KM = BadDistance
    THEN anchor_loop(urs, i + 1, cumulative_distance)
    ELSE LET c == FAdd(cumulative_distance, urs[i].Distance_Driven_KM)
         IN  IF c >= CURRENCY_THRESHOLD /\ urs[i].Date_of_Drive # BadDate
             THEN [datetime |-> strptime(urs[i].Date_of_Drive)]
             ELSE anchor_loop(urs, i + 1, c)

\* Mutant: the sort is made on the list that was read.
records_sorted_in_place(records, username, vehicle_type) == sort_desc(records)

\* The list that was read, as calculate_expiry_date leaves it: the list
\* comprehension builds a new list, and the sort is made on that one.
records_after_sort(records, username, vehicle_type) == records

\* Mutant: the anchor is searched among the records of the last 90 days only.
expiry_body_windowed(records, username, vehicle_type) ==
    LET urs == SelectSeq(user_records(records, username, vehicle_type),
                         LAMBDA r : strptime(r.Date_of_Drive)
                                        >= now - timedelta(WindowDays))
    IN  IF urs = << >> THEN NA
        ELSE LET last_2km_date == anchor_loop(sort_desc(urs), 1, 0)
             IN  IF last_2km_date # None
                 THEN DateString(strftime(last_2km_date.datetime
                                          + timedelta(ValidityDays)))
                 ELSE NA

expiry_body(records, username, vehicle_type) ==
    LET urs == user_records(records, username, vehicle_type)
    IN  IF urs = << >> THEN NA
        ELSE LET last_2km_date == anchor_loop(sort_desc(urs), 1, 0)
             IN  IF last_2km_date # None
                 THEN DateString(strftime(last_2km_date.datetime
                                          + timedelta(ValidityDays)))
                 ELSE NA

\* Mutant: the threshold itself does not count.
is_current_strict(window_distance) == window_distance > CURRENCY_THRESHOLD

\* The currency rule shown to the user: 2.0 KM or more in the last 3 months.
is_current(window_distance) == window_distance >= CURRENCY_THRESHOLD

(***************************************************************************)
(* st.cache_data(ttl=1800): one entry per argument tuple, served while it  *)
(* is younger than the ttl.                                                *)
(***************************************************************************)
EmptyCache == [k \in Keys |-> None]

cache_hit(cache, k, clock) ==
    /\ cache[k] # None
    /\ clock - cache[k].timestamp < CacheTTL

\* The state of the currency of a key as a caller sees it: the status of the
\* last window distance returned since the last record was added.
NoStatus == [k \in Keys |-> "NONE"]

status_of(window_distance) ==
    IF is_current(window_distance) THEN "CURRENT" ELSE "NOT_CURRENT"

(***************************************************************************)
(* The mileage form.  A reading is a number of tenths of a km, or          *)
(* NoReading when the field was left empty (None).                         *)
(***************************************************************************)
NoReading == -1

\* str.strip() on the texts the model types into the vehicle number field.
strip(text) == IF text = " " THEN "" ELSE text

\* The options of the vehicle type selectbox.
vehicle_options(qualifications) ==
    {v \in {"Terrex"} : "Terrex" \in qualifications}
    \cup {v \in {"Belrex"} : "Belrex" \in qualifications}

\* st.date_input(max_value=datetime.now().date()): the dates it lets through.
date_input(value, max_value) == value <= max_value

\* The distance the form computes from the two readings.
distance_of(initial, final) ==
    IF initial # NoReading /\ final # NoReading
    THEN IF FloatOfTenths(final) > FloatOfTenths(initial)
         THEN FSub(FloatOfTenths(final), FloatOfTenths(initial))
         ELSE 0
    ELSE 0

\* Mutant: only the presence of the entries is validated.
validation_presence_only(vehicle_no, initial, final) ==
    IF strip(vehicle_no) = "" THEN "Please enter a vehicle number (MID)"
    ELSE IF initial = NoReading THEN "Please enter initial mileage"
    ELSE IF final = NoReading THEN "Please enter final mileage"
    ELSE ""

\* The validation after the submit button: the error shown, "" when the
\* submission passes.
validation(vehicle_no, initial, final) ==
    IF strip(vehicle_no) = "" THEN "Please enter a vehicle number (MID)"
    ELSE IF initial = NoReading THEN "Please enter initial mileage"
    ELSE IF final = NoReading THEN "Please enter final mileage"
    ELSE IF FloatOfTenths(final) <= FloatOfTenths(initial)
         THEN "Final mileage must be greater than initial mileage"
    ELSE IF distance_of(initial, final) <= 0
         THEN "Distance driven must be greater than 0"
    ELSE ""

\* Mutant: the row is inserted above the rows of the sheet.
append_row_first(worksheet, row) == << row >> \o worksheet

\* worksheet.append_row(row)
append_row(worksheet, row) == Append(worksheet, row)

(***************************************************************************)
(* State: the rows of Mileage_Logs, the clock, the entries of the two      *)
(* caches, the value returned by the call made in the last step (None when *)
(* the step was no call) with the list of records the call read, as the    *)
(* call left it (None when it read none), the status last seen of each key, the rows of    *)
(* the tracker sheets and of Fitness_Tracker, the st.cache_data entry of   *)
(* get_all_personnel_status, the session_cache entry of each session, the  *)
(* last submission of the mileage form and the answers given by the two    *)
(* calculations since the log or the clock last changed.                   *)
(***************************************************************************)
NoSessionCache == [u \in Users |-> None]

\* cleanup_session_memory: the session_cache entry is deleted once it is
\* older than 120 seconds.
cleanup_session_memory(entry, clock) ==
    IF entry # None /\ clock - entry.timestamp > SessionCleanupAge
    THEN None ELSE entry

(***************************************************************************)
(* Accounts: credentials.json maps a username to its entry, which is the   *)
(* password hash itself (legacy format) or a dictionary with the hash      *)
(* under 'password'.  A SHA-256 digest is represented by the text that it  *)
(* is the digest of.                                                       *)
(***************************************************************************)
Passwords == {"password", "secret123", "service456", "abc12", "abcdef"}

hash_password(password) == [sha256 |-> password]

len(password) ==
    CASE password = "password"   -> 8
      [] password = "secret123"  -> 9
      [] password = "service456" -> 10
      [] password = "abc12"      -> 5
      [] password = "abcdef"     -> 6

LegacyEntry(hash) == [format |-> "str", password |-> hash]
DictEntry(hash) == [format |-> "dict", password |-> hash]

\* load_credentials while credentials.json does not exist.
DefaultCredentials ==
    [username \in {"admin", "trooper1", "trooper2"} |->
        CASE username = "admin"    -> LegacyEntry(hash_password("password"))
          [] username = "trooper1" -> LegacyEntry(hash_password("secret123"))
          [] username = "trooper2" -> LegacyEntry(hash_password("service456"))]

\* authenticate_user(username, password, skip_password) on the store creds.
authenticate_user(creds, username, password, skip_password) ==
    IF username \notin DOMAIN creds THEN FALSE
    ELSE IF skip_password THEN TRUE
    ELSE creds[username].password = hash_password(password)

\* st.session_state of a browser session before the first login; a key that
\* is absent holds None, an absent username or page the empty text.
NoUser == ""
NoPage == ""
NewSession ==
    [logged_in |-> FALSE, username |-> NoUser, current_page |-> NoPage,
     confirm_delete |-> None]

\* The User_Management worksheet as setup_worksheets creates it.
UserRow(username, is_commander, is_admin) ==
    [Username |-> username, Is_Commander |-> is_commander, Is_Admin |-> is_admin]

DefaultUserManagement ==
    <<UserRow("trooper1", "FALSE", "FALSE"),
      UserRow("trooper2", "FALSE", "FALSE"),
      UserRow("commander", "TRUE", "FALSE")>>

\* The state outside the currency engine when the application starts: no
\* 'Strength & Power Tracking' worksheet, no request yet, the default
\* accounts and a session that is not logged in.
InitApp ==
    /\ tracking_sheet = None
    /\ rate_limits = [user_id \in Users |-> << >>]
    /\ load_monitor = [active_users |-> {}, last_check |-> 0, high_load_mode |-> FALSE]
    /\ requests_made = << >>
    /\ credentials = DefaultCredentials
    /\ session_state = NewSession
    /\ user_management_worksheet = DefaultUserManagement
    /\ delete_requested = NoUser

Init ==
    /\ mileage_worksheet = << >>
    /\ now = 0
    /\ cache_distance = EmptyCache
    /\ cache_expiry = EmptyCache
    /\ ret = None
    /\ last_status = NoStatus
    /\ terrex_worksheet = TerrexRoster
    /\ belrex_worksheet = BelrexRoster
    /\ fitness_tracker = << >>
    /\ cache_personnel = None
    /\ session_cache = NoSessionCache
    /\ submitted = None
    /\ answered = {}
    /\ InitApp

\* The clock advances.
Tick(step) ==
    /\ now + step <= MaxDay * SecondsPerDay + MaxClock
    /\ step < SecondsPerDay => (now + step) % SecondsPerDay <= MaxClock
    /\ now' = now + step
    /\ ret' = None
    /\ answered' = {}
    /\ UNCHANGED <<mileage_worksheet, cache_distance, cache_expiry, last_status>>
    /\ UNCHANGED <<other_sheets, app_state, cache_personnel, session_cache, submitted>>

\* log_mileage_tab: a submission of the mileage form in the session of
\* username, after the clean-up that main makes on every request, with
\* add_mileage_log, _clear_related_caches and clear_caches when the
\* submission passes the validation.
log_mileage_tab(username, vehicle_type, back, vehicle_no, initial, final) ==
    LET qualifications == check_user_qualifications(username)
        operation_date == strftime(now) - back
        distance_driven == distance_of(initial, final)
        message == validation(vehicle_no, initial, final)
        row == [Username |-> username,
                Date_of_Drive |-> operation_date,
                Distance_Driven_KM |-> distance_driven,
                Vehicle_Type |-> vehicle_type]
    IN  /\ Len(mileage_worksheet) < MaxLog
        /\ qualifications # {}
        /\ vehicle_type \in vehicle_options(qualifications)
        /\ date_input(operation_date, strftime(now))
        /\ submitted' = [Username |-> username, Vehicle_Type |-> vehicle_type,
                         Date_of_Drive |-> operation_date,
                         Vehicle_No_MID |-> vehicle_no,
                         Initial_Mileage_KM |-> initial,
                         Final_Mileage_KM |-> final,
                         message |-> message]
        /\ ret' = None
        /\ IF message = ""
           THEN /\ mileage_worksheet' = append_row(mileage_worksheet, row)
                /\ cache_distance' = EmptyCache
                /\ cache_expiry' = EmptyCache
                /\ cache_personnel' = None
                /\ last_status' = NoStatus
                /\ answered' = {}
           ELSE UNCHANGED <<mileage_worksheet, cache_distance, cache_expiry,
                            cache_personnel, last_status, answered>>
        /\ session_cache' =
               [session_cache EXCEPT
                   ![username] = cleanup_session_memory(@, now)]
        /\ UNCHANGED <<now, other_sheets, app_state>>

\* A call of the cached calculate_3_month_distance(username, vehicle_type).
calculate_3_month_distance(username, vehicle_type) ==
    LET k == <<username, vehicle_type>>
    IN  /\ IF cache_hit(cache_distance, k, now)
           THEN /\ ret' = [fn |-> "distance", key |-> k, at |-> now,
                           before |-> last_status[k],
                           computed |-> cache_distance[k].timestamp,
                           data |-> cache_distance[k].data,
                           records |-> None]
                /\ UNCHANGED cache_distance
           ELSE LET d == distance_body(mileage_worksheet, username,
                                       vehicle_type, now)
                IN  /\ ret' = [fn |-> "distance", key |-> k, at |-> now,
                               before |-> last_status[k],
                               computed |-> now, data |-> d,
                               records |-> mileage_worksheet]
                    /\ cache_distance' =
                           [cache_distance EXCEPT
                               ![k] = [data |-> d, timestamp |-> now]]
        /\ last_status' = [last_status EXCEPT ![k] = status_of(ret'.data)]
        /\ answered' = answered \cup {[fn |-> "distance", key |-> k,
                                       data |-> [km |-> ret'.data]]}
        /\ UNCHANGED <<mileage_worksheet, now, cache_expiry>>
        /\ UNCHANGED <<other_sheets, app_state, cache_personnel, session_cache, submitted>>

\* A call of the cached calculate_expiry_date(username, vehicle_type).
calculate_expiry_date(username, vehicle_type) ==
    LET k == <<username, vehicle_type>>
    IN  /\ IF cache_hit(cache_expiry, k, now)
           THEN /\ ret' = [fn |-> "expiry", key |-> k, at |-> now,
                           before |-> last_status[k],
                           computed |-> cache_expiry[k].timestamp,
                           data |-> cache_expiry[k].data,
                           records |-> None]
                /\ UNCHANGED cache_expiry
           ELSE LET e == expiry_body(mileage_worksheet, username, vehicle_type)
                IN  /\ ret' = [fn |-> "expiry", key |-> k, at |-> now,
                               before |-> last_status[k],
                               computed |-> now, data |-> e,
                               records |->
                                   records_after_sort(mileage_worksheet,
                                                      username, vehicle_type)]
                    /\ cache_expiry' =
                           [cache_expiry EXCEPT
                               ![k] = [data |-> e, timestamp |-> now]]
        /\ answered' = answered \cup {[fn |-> "expiry", key |-> k,
                                       data |-> ret'.data]}
        /\ UNCHANGED <<mileage_worksheet, now, cache_distance, last_status>>
        /\ UNCHANGED <<other_sheets, app_state, cache_personnel, session_cache, submitted>>

Next ==
    \/ \E step \in ClockSteps : Tick(step)
    \/ \E u \in Users, v \in VehicleTypes, b \in BackDays, n \in VehicleNos,
          i \in InitialReadings, f \in FinalReadings :
          log_mileage_tab(u, v, b, n, i, f)
    \/ \E k \in QueryKeys : calculate_3_month_distance(k[1], k[2])
    \/ \E k \in QueryKeys : calculate_expiry_date(k[1], k[2])

Spec == Init /\ [][Next]_vars

(***************************************************************************)
(* The two calculations as functions of the log: the sheet holds any rows  *)
(* that one user logged for one vehicle type on two dates, in any order,   *)
(* and the calculations are called on it.                                  *)
(***************************************************************************)
ReorderRows ==
    [Username : {"trooper1"},
     Date_of_Drive : {0, 1},
     Distance_Driven_KM : {FloatOfTenths(f) : f \in FinalReadings},
     Vehicle_Type : {"Terrex"}]

ReorderLogs == UNION {[1..n -> ReorderRows] : n \in 0..MaxReorder}

InitReorder ==
    /\ mileage_worksheet \in ReorderLogs
    /\ now = strptime(1)
    /\ cache_distance = EmptyCache
    /\ cache_expiry = EmptyCache
    /\ ret = None
    /\ last_status = NoStatus
    /\ terrex_worksheet = TerrexRoster
    /\ belrex_worksheet = BelrexRoster
    /\ fitness_tracker = << >>
    /\ cache_personnel = None
    /\ session_cache = NoSessionCache
    /\ submitted = None
    /\ answered = {}
    /\ InitApp

NextReorder ==
    \/ \E k \in QueryKeys : calculate_3_month_distance(k[1], k[2])
    \/ \E k \in QueryKeys : calculate_expiry_date(k[1], k[2])

SpecReorder == InitReorder /\ [][NextReorder]_vars

(***************************************************************************)
(* The team overview: get_all_personnel_status under st.cache_data and     *)
(* under the session_cache of mileage_team_overview, and the summary that  *)
(* mileage_team_overview computes with pandas.                             *)
(***************************************************************************)
\* One dictionary per row of a tracker sheet that has a username, a
\* qualification and a qualification date.
personnel_of(records, vehicle_type) ==
    LET q == SelectSeq(records, LAMBDA r : /\ strip(r.Username) # ""
                                           /\ r.Qualification # ""
                                           /\ r.Qualification_Date # "")
    IN  [i \in 1..Len(q) |->
            [username |-> strip(q[i].Username),
             platoon |-> q[i].Platoon,
             vehicle_type |-> vehicle_type,
             currency_status |-> q[i].Currency_Maintained,
             days_to_expiry |-> q[i].Days_to_Expiry]]

get_all_personnel_status_body(terrex_records, belrex_records) ==
    personnel_of(terrex_records, "Terrex") \o personnel_of(belrex_records, "Belrex")

\* str.upper() on the texts of the Currency Maintained column.
upper(text) ==
    CASE text = "yes" -> "YES"
      [] text = "no" -> "NO"
      [] OTHER -> text

\* pd.to_numeric(errors='coerce'): a number stays, anything else is NaN.
NaN == [nan |-> TRUE]

to_numeric(cell) == IF "num" \in DOMAIN cell THEN cell ELSE NaN

\* x <= n on a column of numbers and NaN: a comparison with NaN is False.
le(x, n) == "num" \in DOMAIN x /\ x.num <= n

\* df[(currency_status.str.upper() == 'YES') & (days_to_expiry_num <= 14)]
expiring(df) ==
    SelectSeq(df, LAMBDA p : /\ upper(p.currency_status) = "YES"
                             /\ le(to_numeric(p.days_to_expiry), ExpiringSoonDays))

\* Mutant: the rows without a platoon form no group.
group_keys_named(df) == {df[i].platoon : i \in 1..Len(df)} \ {""}

\* The groups of df.groupby('platoon').
group_keys(df) == {df[i].platoon : i \in 1..Len(df)}

\* groupby('platoon').agg(...) with the columns renamed Current and Total.
platoon_groups(df) ==
    [pl \in group_keys(df) |->
        [Current |-> Len(SelectSeq(df, LAMBDA p : /\ p.platoon = pl
                                                  /\ upper(p.currency_status) = "YES")),
         Total |-> Len(SelectSeq(df, LAMBDA p : p.platoon = pl))]]

team_summary(df) ==
    [total_personnel |-> Len(df),
     current_count |->
         Len(SelectSeq(df, LAMBDA p : upper(p.currency_status) = "YES")),
     not_current_count |->
         Len(SelectSeq(df, LAMBDA p : upper(p.currency_status) = "NO")),
     expiring_soon |-> Len(expiring(df)),
     platoon_groups |-> platoon_groups(df)]

\* An entry of st.cache_data or of session_cache is served while it is
\* younger than the ttl.
entry_hit(entry, clock, ttl) ==
    /\ entry # None
    /\ clock - entry.timestamp < ttl

\* mileage_team_overview rendered in the session of username, after the
\* clean-up that main makes on every request: the personnel list comes from
\* the session_cache entry, else from the st.cache_data entry, else from the
\* tracker sheets; no summary is shown for an empty list.
mileage_team_overview(username) ==
    LET fresh == get_all_personnel_status_body(terrex_worksheet, belrex_worksheet)
        cleaned == cleanup_session_memory(session_cache[username], now)
        session_hit == entry_hit(cleaned, now, SessionCacheTTL)
        data_hit == entry_hit(cache_personnel, now, PersonnelTTL)
        all_personnel == IF session_hit THEN session_cache[username].data
                         ELSE IF data_hit THEN cache_personnel.data
                         ELSE fresh
    IN  /\ session_cache' =
               IF session_hit THEN session_cache
               ELSE [session_cache EXCEPT
                        ![username] = [data |-> all_personnel, timestamp |-> now]]
        /\ cache_personnel' =
               IF session_hit \/ data_hit THEN cache_personnel
               ELSE [data |-> fresh, timestamp |-> now]
        /\ ret' = [fn |-> "team", key |-> username, at |-> now,
                   personnel |-> all_personnel,
                   data |-> IF all_personnel = << >> THEN None
                            ELSE team_summary(all_personnel)]
        /\ UNCHANGED <<mileage_worksheet, now, cache_distance, cache_expiry,
                       last_status, other_sheets, app_state, submitted, answered>>

\* The tracker sheets of the team overview: any rows, up to MaxTeam in
\* Terrex_Tracker and one in Belrex_Tracker.
TeamRows ==
    [Username : {"driver1"}, Platoon : {"", "P1", "P2"}, Qualification : {"Q"},
     Qualification_Date : {"2024-01-01"},
     Currency_Maintained : {"YES", "yes", "NO"},
     Days_to_Expiry : {Number(-1), Number(14), Number(15), NA}]
    \cup {[RosterRow EXCEPT !.Qualification = ""],
          [RosterRow EXCEPT !.Username = ""]}

BelrexRows ==
    {[RosterRow EXCEPT !.Platoon = "P2", !.Currency_Maintained = "YES",
                       !.Days_to_Expiry = Number(0)],
     [RosterRow EXCEPT !.Qualification_Date = ""]}

TeamSessions == {"trooper1"}

InitTeam ==
    /\ terrex_worksheet \in UNION {[1..n -> TeamRows] : n \in 0..MaxTeam}
    /\ belrex_worksheet \in UNION {[1..n -> BelrexRows] : n \in 0..1}
    /\ mileage_worksheet = << >>
    /\ now = 0
    /\ cache_distance = EmptyCache
    /\ cache_expiry = EmptyCache
    /\ ret = None
    /\ last_status = NoStatus
    /\ fitness_tracker = << >>
    /\ cache_personnel = None
    /\ session_cache = NoSessionCache
    /\ submitted = None
    /\ answered = {}
    /\ InitApp

NextTeam == \E u \in TeamSessions : mileage_team_overview(u)

SpecTeam == InitTeam /\ [][NextTeam]_vars

(***************************************************************************)
(* The mileage form with any entries: fields left empty, a blank vehicle   *)
(* number, a final reading below or equal to the initial one, and dates    *)
(* and vehicle types that the widgets do not offer.                        *)
(***************************************************************************)
FormBackDays == {-1, 0, 1}
FormVehicleNos == {" ", "MID1"}
FormInitialReadings == {NoReading, 7}
FormFinalReadings == {NoReading, 6, 7, 20}

NextForm ==
    \E u \in Users, v \in VehicleTypes, b \in FormBackDays,
       n \in FormVehicleNos, i \in FormInitialReadings,
       f \in FormFinalReadings :
       log_mileage_tab(u, v, b, n, i, f)

SpecForm == Init /\ [][NextForm]_vars

(***************************************************************************)
(* The Refresh button of admin_team_dashboard, beside the mileage form and *)
(* the two calculations.                                                   *)
(***************************************************************************)
\* clear_session_cache() in the session of username, st.cache_data.clear().
admin_team_dashboard(username) ==
    /\ session_cache' = [session_cache EXCEPT ![username] = None]
    /\ cache_distance' = EmptyCache
    /\ cache_expiry' = EmptyCache
    /\ cache_personnel' = None
    /\ ret' = None
    /\ UNCHANGED <<mileage_worksheet, now, last_status, other_sheets, app_state,
                   submitted, answered>>

NextRefresh ==
    \/ Next
    \/ \E u \in TeamSessions : admin_team_dashboard(u)

SpecRefresh == Init /\ [][NextRefresh]_vars

(***************************************************************************)
(* get_all_fitness_data: the statistics of each user over the rows of the  *)
(* sheet Fitness_Tracker.  A Date cell is DateString(d) or the empty text, *)
(* a Weight cell is Number(kg), the empty text or another text.  The       *)
(* weights of the model keep max_weight_lifted * 0.95 away from every      *)
(* weight, so that the comparison is decided without rounding.             *)
(***************************************************************************)
EmptyText == [text |-> ""]

Never == [text |-> "Never"]

\* The local variable weight before its first assignment.
Unbound == -1

\* Mutant: the records of every date are taken.
in_recent_window_always(workout_date, thirty_days_ago) == TRUE

\* workout_date >= thirty_days_ago
in_recent_window(workout_date, thirty_days_ago) == workout_date >= thirty_days_ago

\* The body of the for loop over the workouts of one user, on the record w
\* with the local variables st.
fitness_step(w, thirty_days_ago, st) ==
    IF "date" \notin DOMAIN w.Date THEN st
    ELSE LET workout_date == strptime(w.Date.date)
             later == st.last_workout_date = Never
                      \/ workout_date > strptime(st.last_workout_date.date)
             seen == [st EXCEPT !.last_workout_date =
                                    IF later THEN w.Date ELSE @]
         IN  IF ~in_recent_window(workout_date, thirty_days_ago) THEN seen
             ELSE LET parsed == "num" \in DOMAIN w.Weight \/ w.Weight = EmptyText
                      weight == IF "num" \in DOMAIN w.Weight THEN w.Weight.num
                                ELSE IF w.Weight = EmptyText THEN 0
                                ELSE st.weight
                      lifted == parsed /\ weight > 0
                      max_weight_lifted ==
                          IF lifted /\ weight > st.max_weight_lifted
                          THEN weight ELSE st.max_weight_lifted
                      counted == [st EXCEPT
                                    !.recent_workouts = @ + 1,
                                    !.weight = weight,
                                    !.max_weight_lifted = max_weight_lifted,
                                    !.weight_progression =
                                        IF lifted THEN Append(@, weight) ELSE @]
                  IN  IF weight = Unbound THEN counted
                      ELSE [counted EXCEPT
                              !.recent_prs =
                                  IF 100 * weight > 95 * max_weight_lifted
                                  THEN @ + 1 ELSE @,
                              !.last_workout_date =
                                  IF later THEN w.Date ELSE @]

RECURSIVE fitness_loop(_, _, _, _)
fitness_loop(workouts, thirty_days_ago, i, st) ==
    IF i > Len(workouts) THEN st
    ELSE fitness_loop(workouts, thirty_days_ago, i + 1,
                      fitness_step(workouts[i], thirty_days_ago, st))

\* The dictionary of one user.
fitness_of(workouts, clock) ==
    LET st == fitness_loop(workouts, clock - timedelta(FitnessWindowDays), 1,
                  [recent_workouts |-> 0, last_workout_date |-> Never,
                   max_weight_lifted |-> 0, recent_prs |-> 0,
                   weight |-> Unbound, weight_progression |-> << >>])
        p == st.weight_progression
    IN  [recent_workouts |-> st.recent_workouts,
         total_workouts |-> Len(workouts),
         last_workout_date |-> st.last_workout_date,
         max_weight_lifted |-> st.max_weight_lifted,
         recent_prs |-> st.recent_prs,
         weight_increase |-> IF Len(p) >= 2 THEN p[Len(p)] - p[1] ELSE 0]

\* user_workouts: the rows with a username, grouped by username.
get_all_fitness_data_body(fitness_records, clock) ==
    LET names == {strip(fitness_records[i].Username) :
                     i \in 1..Len(fitness_records)} \ {""}
    IN  [username \in names |->
            fitness_of(SelectSeq(fitness_records,
                                 LAMBDA r : strip(r.Username) = username),
                       clock)]

get_all_fitness_data ==
    /\ ret' = [fn |-> "fitness", at |-> now,
               data |-> get_all_fitness_data_body(fitness_tracker, now)]
    /\ UNCHANGED <<mileage_worksheet, now, cache_distance, cache_expiry,
                   last_status, other_sheets, app_state, cache_personnel, session_cache,
                   submitted, answered>>

\* The rows of Fitness_Tracker: workouts of two users, dated more than 30
\* days, exactly 30 days and one day before the day of the call, or undated.
FitnessDay == 40

FitnessRows ==
    [Username : {"driver1", "trooper1"},
     Date : {DateString(5), DateString(FitnessDay - FitnessWindowDays),
             DateString(FitnessDay - 1), EmptyText},
     Weight : {Number(50), Number(96), Number(100), EmptyText, [text |-> "BW"]}]
    \cup {[Username |-> " ", Date |-> DateString(FitnessDay - 1),
           Weight |-> Number(100)]}

InitFitness ==
    /\ fitness_tracker \in UNION {[1..n -> FitnessRows] : n \in 0..MaxWorkouts}
    /\ now \in {strptime(FitnessDay), strptime(FitnessDay) + MaxClock}
    /\ mileage_worksheet = << >>
    /\ cache_distance = EmptyCache
    /\ cache_expiry = EmptyCache
    /\ ret = None
    /\ last_status = NoStatus
    /\ terrex_worksheet = TerrexRoster
    /\ belrex_worksheet = BelrexRoster
    /\ cache_personnel = None
    /\ session_cache = NoSessionCache
    /\ submitted = None
    /\ answered = {}
    /\ InitApp

NextFitness == get_all_fitness_data

SpecFitness == InitFitness /\ [][NextFitness]_vars

(***************************************************************************)
(* The caches around a submission: the mileage form, the two calculations  *)
(* and the team overview in two sessions, within a few minutes.            *)
(***************************************************************************)
CacheStep == 120

NextCache ==
    \/ now < MaxCacheClock /\ Tick(CacheStep)
    \/ \E f \in FinalReadings : log_mileage_tab("driver1", "Terrex", 0, "MID1", 0, f)
    \/ \E k \in QueryKeys : calculate_3_month_distance(k[1], k[2])
    \/ \E k \in QueryKeys : calculate_expiry_date(k[1], k[2])
    \/ \E u \in Users : mileage_team_overview(u)

SpecCache == Init /\ [][NextCache]_vars

(***************************************************************************)
(* The two calculations on a sheet that was edited by hand: rows of one    *)
(* user and vehicle type with dates and distances that may not parse.      *)
(***************************************************************************)
MalformedRows ==
    [Username : {"trooper1"},
     Date_of_Drive : {0, 1, BadDate},
     Distance_Driven_KM : {FloatOfTenths(6), FloatOfTenths(20), BadDistance},
     Vehicle_Type : {"Terrex"}]

InitMalformed ==
    /\ mileage_worksheet \in UNION {[1..n -> MalformedRows] : n \in 0..MaxMalformed}
    /\ now = strptime(1)
    /\ cache_distance = EmptyCache
    /\ cache_expiry = EmptyCache
    /\ ret = None
    /\ last_status = NoStatus
    /\ terrex_worksheet = TerrexRoster
    /\ belrex_worksheet = BelrexRoster
    /\ fitness_tracker = << >>
    /\ cache_personnel = None
    /\ session_cache = NoSessionCache
    /\ submitted = None
    /\ answered = {}
    /\ InitApp

SpecMalformed == InitMalformed /\ [][NextReorder]_vars

(***************************************************************************)
(* The workout log: log_fitness_data writes the session that the fitness   *)
(* page submits to the worksheet 'Strength & Power Tracking'.  The sheet   *)
(* is None while it does not exist and is otherwise the sequence of its    *)
(* rows below the header row; a row maps a column title to its cell.       *)
(***************************************************************************)
TrackingHeaders == <<"Date", "Soldier Name / ID", "Session Number",
                     "Back Squat (kg)", "Back Squat (reps)", "Pull Up (reps)">>

\* The full_name that check_user_qualifications gives for a username.
full_name(username) ==
    CASE username = "trooper1" -> [text |-> "TROOPER1"]
      [] username = "driver1"  -> [text |-> "DRIVER ONE"]
      [] OTHER                 -> EmptyText

is_bodyweight(exercise_name) == exercise_name \in {"Pull Up"}

weight_col(exercise_name) ==
    CASE exercise_name = "Back Squat" -> "Back Squat (kg)"
      [] exercise_name = "Pull Up"    -> "Pull Up (kg)"

reps_col(exercise_name) ==
    CASE exercise_name = "Back Squat" -> "Back Squat (reps)"
      [] exercise_name = "Pull Up"    -> "Pull Up (reps)"

\* One turn of the loop over exercise_data: the row and the count of the
\* exercises logged so far, after the entry data.
exercise_step(acc, data) ==
    IF ~(data.weight > 0 \/ data.actual_reps # 0) THEN acc
    ELSE LET bodyweight == is_bodyweight(data.exercise)
             row1 == IF ~bodyweight /\ data.weight > 0
                        /\ \E h \in 1..Len(TrackingHeaders) :
                               TrackingHeaders[h] = weight_col(data.exercise)
                     THEN [acc.row_data EXCEPT ![weight_col(data.exercise)] =
                                                   Number(data.weight)]
                     ELSE acc.row_data
         IN  IF /\ data.actual_reps # 0
                /\ \E h \in 1..Len(TrackingHeaders) :
                       TrackingHeaders[h] = reps_col(data.exercise)
             THEN [row_data |-> [row1 EXCEPT ![reps_col(data.exercise)] =
                                                 Number(data.actual_reps)],
                   exercises_logged |-> acc.exercises_logged + 1]
             ELSE IF ~bodyweight /\ data.weight > 0
                  THEN [row_data |-> row1,
                        exercises_logged |-> acc.exercises_logged + 1]
                  ELSE [row_data |-> row1,
                        exercises_logged |-> acc.exercises_logged]

RECURSIVE exercise_loop(_, _, _)
exercise_loop(acc, exercise_data, i) ==
    IF i > Len(exercise_data) THEN acc
    ELSE exercise_loop(exercise_step(acc, exercise_data[i]), exercise_data, i + 1)

\* The row that log_fitness_data prepares before the loop.
blank_row(username, session_number, clock) ==
    [h \in {TrackingHeaders[i] : i \in 1..Len(TrackingHeaders)} |->
        CASE h = "Date"              -> DateString(strftime(clock))
          [] h = "Soldier Name / ID" -> full_name(username)
          [] h = "Session Number"    -> Number(session_number)
          [] OTHER                   -> EmptyText]

\* log_fitness_data in the session of username: an existing worksheet is
\* deleted and a new one with the header row is added, and the row of the
\* session is appended to the new one.
log_fitness_data(username, session_number, exercise_data) ==
    LET filled == exercise_loop([row_data |-> blank_row(username, session_number, now),
                                 exercises_logged |-> 0],
                                exercise_data, 1)
    IN  /\ tracking_sheet' =
               IF filled.exercises_logged > 0
               THEN Append(<< >>, filled.row_data)
               ELSE << >>
        /\ UNCHANGED <<engine, now, ret, rate_limits, load, accounts, roles>>

NextTracking ==
    \/ \E step \in ClockSteps : Tick(step)
    \/ \E username \in Users, session_number \in {1, 2},
          w1 \in {0, 50}, r1 \in {0, 5}, w2 \in {0, 10}, r2 \in {0, 8} :
           log_fitness_data(username, session_number,
               <<[exercise |-> "Back Squat", weight |-> w1, actual_reps |-> r1],
                 [exercise |-> "Pull Up", weight |-> w2, actual_reps |-> r2]>>)

SpecTracking == Init /\ [][NextTracking]_vars

(***************************************************************************)
(* Rate limiting: st.session_state.rate_limits maps a user to the list of  *)
(* the times of that user's admitted requests.                             *)
(***************************************************************************)
\* The requests that check_rate_limit keeps: those less than a minute old.
recent_window(user_requests, current_time) ==
    SelectSeq(user_requests, LAMBDA req_time : current_time - req_time < RateWindow)

\* The test that refuses a request.
limit_reached_above(user_requests) == Len(user_requests) > RateLimit
limit_reached(user_requests) == Len(user_requests) >= RateLimit

\* The lists after check_rate_limit(user_id) at current_time, and its result.
rate_limits_after(limits, user_id, current_time) ==
    LET user_requests == recent_window(limits[user_id], current_time)
    IN  IF limit_reached(user_requests)
        THEN [limits EXCEPT ![user_id] = user_requests]
        ELSE [limits EXCEPT ![user_id] = Append(user_requests, current_time)]

rate_limit_result(limits, user_id, current_time) ==
    ~limit_reached(recent_window(limits[user_id], current_time))

check_rate_limit(user_id) ==
    /\ rate_limits' = rate_limits_after(rate_limits, user_id, now)
    /\ ret' = [fn |-> "check_rate_limit", key |-> user_id,
               data |-> rate_limit_result(rate_limits, user_id, now)]
    /\ UNCHANGED <<engine, now, tracking_sheet, load, accounts, roles>>

\* Time passes between two requests.
Wait(step) ==
    /\ now + step <= MaxRateClock
    /\ now' = now + step
    /\ ret' = None
    /\ UNCHANGED <<engine, tracking_sheet, rate_limits, load, accounts, roles>>

NextRate ==
    \/ \E step \in {30} : Wait(step)
    \/ \E user_id \in Users : check_rate_limit(user_id)

SpecRate == Init /\ [][NextRate]_vars

(***************************************************************************)
(* High-load protection.  Every run of the script calls                    *)
(* configure_high_load_performance, which calls                            *)
(* check_and_enable_high_load_mode, and then main.  requests_made is the   *)
(* log of the runs of the session: the time of each.                       *)
(***************************************************************************)
\* The sum that check_and_enable_high_load_mode takes over the lists of
\* rate_limits: the requests of the last 5 minutes.
RECURSIVE total_recent_requests(_, _, _)
total_recent_requests(limits, users, current_time) ==
    IF users = {} THEN 0
    ELSE LET user_id == CHOOSE u \in users : TRUE
         IN  Len(SelectSeq(limits[user_id],
                           LAMBDA req : current_time - req < LoadWindow))
               + total_recent_requests(limits, users \ {user_id}, current_time)

\* load_monitor after check_and_enable_high_load_mode at current_time.
check_and_enable_high_load_mode(monitor, limits, session, current_time) ==
    LET active_users == IF session.username # NoUser
                        THEN monitor.active_users \cup {session.username}
                        ELSE monitor.active_users
        concurrent_users == Cardinality(active_users)
        should_enable == \/ concurrent_users > UserThreshold
                         \/ total_recent_requests(limits, DOMAIN limits, current_time)
                                > RequestThreshold
    IN  IF current_time - monitor.last_check > CheckInterval
        THEN [active_users |-> active_users,
              last_check |-> current_time,
              high_load_mode |-> should_enable]
        ELSE [monitor EXCEPT !.active_users = active_users]

\* One run of the script in the session: the load check, the gate of main
\* and, when login is a pair of a username and a password, the submission
\* of the login form by a session that is not logged in.
main(login) ==
    LET monitor == check_and_enable_high_load_mode(load_monitor, rate_limits,
                                                   session_state, now)
        limited == session_state.logged_in /\ monitor.high_load_mode
        user_id == session_state.username
        admitted == ~limited \/ rate_limit_result(rate_limits, user_id, now)
    IN  /\ Len(requests_made) < MaxRequests
        /\ login # None => ~session_state.logged_in
        /\ requests_made' = Append(requests_made, now)
        /\ load_monitor' = monitor
        /\ rate_limits' = IF limited THEN rate_limits_after(rate_limits, user_id, now)
                          ELSE rate_limits
        /\ session_state' =
               IF admitted /\ login # None
                  /\ authenticate_user(credentials, login[1], login[2], FALSE)
               THEN [session_state EXCEPT !.logged_in = TRUE, !.username = login[1]]
               ELSE session_state
        /\ ret' = [fn |-> "main", rate_limited |-> limited, data |-> admitted]
        /\ UNCHANGED <<engine, now, tracking_sheet, credentials, roles>>

\* Time passes between two runs.
WaitLoad(step) ==
    /\ now + step <= MaxLoadClock
    /\ now' = now + step
    /\ ret' = None
    /\ UNCHANGED <<engine, tracking_sheet, rate_limits, load, accounts, roles>>

NextLoad ==
    \/ \E step \in {31} : WaitLoad(step)
    \/ \E login \in {None, <<"trooper1", "secret123">>, <<"trooper1", "abc12">>} :
           main(login)

SpecLoad == Init /\ [][NextLoad]_vars

(***************************************************************************)
(* The credential store: change_password, create_user and the user         *)
(* initialisation that the application makes once per session.             *)
(***************************************************************************)
AccountNames == {"admin", "trooper1", "trooper2", "driver1", "driver2"}

\* The store with the entry of username set.
with_entry(creds, username, entry) ==
    [u \in DOMAIN creds \cup {username} |-> IF u = username THEN entry ELSE creds[u]]

\* The test of change_password on the new password.
too_short_never(new_password) == FALSE
too_short(new_password) == len(new_password) < MinPasswordLength

\* The result of change_password and the store that it leaves.
change_password_result(creds, username, old_password, new_password) ==
    /\ authenticate_user(creds, username, old_password, FALSE)
    /\ ~too_short(new_password)

change_password_store(creds, username, old_password, new_password) ==
    IF change_password_result(creds, username, old_password, new_password)
    THEN with_entry(creds, username, DictEntry(hash_password(new_password)))
    ELSE creds

change_password(username, old_password, new_password) ==
    /\ credentials' = change_password_store(credentials, username,
                                            old_password, new_password)
    /\ ret' = [fn |-> "change_password", key |-> username,
               old_password |-> old_password, new_password |-> new_password,
               before |-> credentials,
               data |-> change_password_result(credentials, username,
                                               old_password, new_password)]
    /\ UNCHANGED <<engine, now, tracking_sheet, rate_limits, load, session_state, roles>>

\* create_user: an existing user is kept when preserve_existing is set.
create_user(username, password, preserve_existing) ==
    /\ credentials' = IF preserve_existing /\ username \in DOMAIN credentials
                      THEN credentials
                      ELSE with_entry(credentials, username,
                                      LegacyEntry(hash_password(password)))
    /\ ret' = [fn |-> "create_user", key |-> username, before |-> credentials,
               data |-> TRUE]
    /\ UNCHANGED <<engine, now, tracking_sheet, rate_limits, load, session_state, roles>>

\* The username cell of a Personnel_Tracker record after strip and lower.
normalise(cell) ==
    CASE cell = " Trooper1 " -> "trooper1"
      [] cell = "Driver1"    -> "driver1"
      [] cell = "Driver2"    -> "driver2"
      [] OTHER               -> cell

\* The test of safe_initialize_missing_users that lets a user be added.
is_missing_any(creds, username) == username # ""
is_missing(creds, username) == username # "" /\ username \notin DOMAIN creds

RECURSIVE add_missing(_, _, _)
add_missing(creds, personnel_data, i) ==
    IF i > Len(personnel_data) THEN creds
    ELSE LET username == normalise(personnel_data[i])
         IN  add_missing(IF is_missing(creds, username)
                         THEN with_entry(creds, username,
                                         LegacyEntry(hash_password(DefaultPassword)))
                         ELSE creds,
                         personnel_data, i + 1)

\* safe_initialize_missing_users with the username column of
\* Personnel_Tracker; the column is None when the sheet cannot be read.
safe_initialize_missing_users(personnel_records) ==
    /\ credentials' = IF personnel_records = None THEN credentials
                      ELSE add_missing(credentials, personnel_records, 1)
    /\ ret' = [fn |-> "safe_initialize_missing_users", before |-> credentials,
               data |-> personnel_records # None]
    /\ UNCHANGED <<engine, now, tracking_sheet, rate_limits, load, session_state, roles>>

\* The passwords that are typed in.
TypedPasswords == {"secret123", "abc12", "abcdef"}

NextAccounts ==
    \/ \E username \in AccountNames, old_password \in TypedPasswords,
          new_password \in TypedPasswords :
           change_password(username, old_password, new_password)
    \/ \E username \in AccountNames, password \in TypedPasswords :
           create_user(username, password, TRUE)
    \/ \E n \in 1..MaxPersonnel :
       \E personnel_records \in [1..n -> {" Trooper1 ", "Driver1", "trooper2", ""}] :
           safe_initialize_missing_users(personnel_records)

SpecAccounts == Init /\ [][NextAccounts]_vars

(***************************************************************************)
(* One browser session: login, logout, session restoration, the sidebar    *)
(* and the page dispatch of main_app, and the Account Removal column of    *)
(* account_management_tab.  Roles are read from User_Management.           *)
(***************************************************************************)
lower(text) ==
    CASE text = "Driver1" -> "driver1"
      [] text = "Driver2" -> "driver2"
      [] OTHER -> text

DefaultInfo(username) ==
    CASE username = "admin"     -> [is_admin |-> TRUE, is_commander |-> FALSE]
      [] username = "commander" -> [is_admin |-> FALSE, is_commander |-> TRUE]
      [] OTHER                  -> [is_admin |-> FALSE, is_commander |-> FALSE]

\* The first record of the user decides; without one the defaults apply.
RECURSIVE get_user_management_info_from(_, _, _)
get_user_management_info_from(records, username, i) ==
    IF i > Len(records) THEN DefaultInfo(username)
    ELSE IF lower(records[i].Username) = lower(username)
    THEN [is_admin |-> upper(records[i].Is_Admin) = "TRUE",
          is_commander |-> upper(records[i].Is_Commander) = "TRUE"]
    ELSE get_user_management_info_from(records, username, i + 1)

get_user_management_info(username) ==
    get_user_management_info_from(user_management_worksheet, username, 1)

is_admin_user(username) == get_user_management_info(username).is_admin
is_commander_user(username) == get_user_management_info(username).is_commander

\* update_user_permissions: the row of the user is updated, or a row is added.
update_user_permissions(username, is_admin, is_commander) ==
    /\ user_management_worksheet' =
           IF \E i \in 1..Len(user_management_worksheet) :
                  lower(user_management_worksheet[i].Username) = lower(username)
           THEN LET i == CHOOSE k \in 1..Len(user_management_worksheet) :
                           /\ lower(user_management_worksheet[k].Username) = lower(username)
                           /\ \A j \in 1..(k - 1) :
                                  lower(user_management_worksheet[j].Username) # lower(username)
                IN  [user_management_worksheet EXCEPT
                         ![i] = UserRow(user_management_worksheet[i].Username,
                                        IF is_commander THEN "TRUE" ELSE "FALSE",
                                        IF is_admin THEN "TRUE" ELSE "FALSE")]
           ELSE Append(user_management_worksheet,
                       UserRow(username,
                               IF is_commander THEN "TRUE" ELSE "FALSE",
                               IF is_admin THEN "TRUE" ELSE "FALSE"))
    /\ ret' = [fn |-> "update_user_permissions", key |-> username, data |-> TRUE]
    /\ UNCHANGED <<engine, now, tracking_sheet, rate_limits, load, accounts,
                   delete_requested>>

\* The token that login_page issues for a username.
generate_session_token(username) == [sha256 |-> <<username, "_session_salt">>]

validate_session_token(username, token) == token = generate_session_token(username)

\* login_page: the login form is submitted in a session that is not logged in.
login_page(username, password) ==
    /\ ~session_state.logged_in
    /\ session_state' =
           IF authenticate_user(credentials, username, password, FALSE)
           THEN [session_state EXCEPT !.logged_in = TRUE, !.username = username]
           ELSE session_state
    /\ ret' = [fn |-> "login_page", key |-> username,
               data |-> authenticate_user(credentials, username, password, FALSE)]
    /\ UNCHANGED <<engine, now, tracking_sheet, rate_limits, load, credentials, roles>>

\* The Logout button of the sidebar deletes every key of the session.
logout ==
    /\ session_state.logged_in
    /\ session_state' = NewSession
    /\ ret' = [fn |-> "logout", key |-> session_state.username, data |-> TRUE]
    /\ UNCHANGED <<engine, now, tracking_sheet, rate_limits, load, credentials, roles>>

\* restore_session, called by main, with the URL parameters restored_user
\* and restored_token.
restore_session(restored_user, restored_token) ==
    LET restored == /\ ~session_state.logged_in
                    /\ validate_session_token(restored_user, restored_token)
    IN  /\ session_state' =
               IF restored
               THEN [session_state EXCEPT !.logged_in = TRUE, !.username = restored_user]
               ELSE session_state
        /\ ret' = [fn |-> "restore_session", key |-> restored_user,
                   token |-> restored_token, data |-> restored]
        /\ UNCHANGED <<engine, now, tracking_sheet, rate_limits, load, credentials,
                       roles>>

\* The navigation buttons that the sidebar of main_app offers to the user.
nav_buttons(username) ==
    {"Dashboard", "My Mileage", "Safety Portal", "Fitness Tracker", "Change Password"}
      \cup (IF is_admin_user(username) THEN {"Team Overview", "Account Management"}
            ELSE IF is_commander_user(username) THEN {"Team Overview"}
            ELSE {})

\* The page that the dispatch of main_app renders for current_page.
rendered_page(current_page) ==
    IF current_page \in {"Dashboard", "My Mileage", "Safety Portal", "Fitness Tracker",
                         "Team Overview", "Account Management", "Change Password"}
    THEN current_page
    ELSE "My Mileage"

\* main_app in a logged-in session; nav is the navigation button that was
\* pressed, NoPage when none was.
main_app(nav) ==
    LET current_page == IF session_state.current_page = NoPage THEN "Dashboard"
                        ELSE session_state.current_page
        page == IF nav # NoPage THEN nav ELSE current_page
    IN  /\ session_state.logged_in
        /\ nav # NoPage => nav \in nav_buttons(session_state.username) \ {current_page}
        /\ session_state' = [session_state EXCEPT !.current_page = page]
        /\ ret' = [fn |-> "main_app", key |-> session_state.username,
                   data |-> rendered_page(page)]
        /\ UNCHANGED <<engine, now, tracking_sheet, rate_limits, load, credentials,
                       roles>>

\* The accounts that account_management_tab lets the user select.
manageable_accounts == DOMAIN credentials \ {"admin"}

ProtectedAccounts == {"trooper1", "trooper2", "commander"}

\* The Account Removal column is drawn while the tab is the rendered page.
account_removal_shown(selected_user) ==
    /\ session_state.logged_in
    /\ rendered_page(session_state.current_page) = "Account Management"
    /\ session_state.current_page # NoPage
    /\ selected_user \in manageable_accounts
    /\ selected_user \notin ProtectedAccounts

\* The button Delete Account is pressed.
press_delete_account(selected_user) ==
    /\ account_removal_shown(selected_user)
    /\ session_state' = IF session_state.confirm_delete = None
                        THEN [session_state EXCEPT !.confirm_delete = [flag |-> TRUE]]
                        ELSE session_state
    /\ delete_requested' = selected_user
    /\ ret' = [fn |-> "Delete Account", key |-> selected_user, data |-> TRUE]
    /\ UNCHANGED <<engine, now, tracking_sheet, rate_limits, load, credentials,
                   user_management_worksheet>>

\* The confirmation is drawn while confirm_delete holds True.
confirmation_shown(selected_user) ==
    /\ account_removal_shown(selected_user)
    /\ session_state.confirm_delete = [flag |-> TRUE]

\* The button Cancel is pressed.
press_cancel(selected_user) ==
    /\ confirmation_shown(selected_user)
    /\ session_state' = [session_state EXCEPT !.confirm_delete = [flag |-> FALSE]]
    /\ delete_requested' = NoUser
    /\ ret' = [fn |-> "Cancel", key |-> selected_user, data |-> TRUE]
    /\ UNCHANGED <<engine, now, tracking_sheet, rate_limits, load, credentials,
                   user_management_worksheet>>

\* The button Confirm Delete is pressed.
press_confirm_delete(selected_user) ==
    /\ confirmation_shown(selected_user)
    /\ credentials' = [u \in DOMAIN credentials \ {selected_user} |-> credentials[u]]
    /\ session_state' = [session_state EXCEPT !.confirm_delete = [flag |-> FALSE]]
    /\ delete_requested' = NoUser
    /\ ret' = [fn |-> "Confirm Delete", key |-> selected_user,
               requested |-> delete_requested, data |-> TRUE]
    /\ UNCHANGED <<engine, now, tracking_sheet, rate_limits, load,
                   user_management_worksheet>>

NextSession ==
    \/ safe_initialize_missing_users(<<"Driver1", "Driver2">>)
    \/ \E login \in {<<"admin", "password">>, <<"driver1", "secret123">>,
                      <<"driver1", "abc12">>} :
           login_page(login[1], login[2])
    \/ logout
    \/ \E restored_user \in {"admin", "driver1"}, token_user \in {"admin", "driver1"} :
           restore_session(restored_user, generate_session_token(token_user))
    \/ \E nav \in {NoPage, "Dashboard", "Team Overview", "Account Management"} :
           main_app(nav)
    \/ \E username \in {"admin", "driver1"}, is_admin \in BOOLEAN, is_commander \in BOOLEAN :
           update_user_permissions(username, is_admin, is_commander)
    \/ \E selected_user \in AccountNames :
           \/ press_delete_account(selected_user)
           \/ press_cancel(selected_user)
           \/ press_confirm_delete(selected_user)

SpecSession == Init /\ [][NextSession]_vars

\* Every row was logged by a qualified user, with a positive distance and a
\* date that is not in the future.
TypeOK ==
    /\ now \in Nat
    /\ \A i \in 1..Len(mileage_worksheet) :
           LET r == mileage_worksheet[i]
           IN  /\ r.Vehicle_Type \in check_user_qualifications(r.Username)
               /\ r.Distance_Driven_KM > 0
               /\ r.Date_of_Drive <= strftime(now)

(***************************************************************************)
(* Vocabulary of the properties.                                           *)
(***************************************************************************)
Returned(fn) == ret # None /\ ret.fn = fn

\* The value was computed by this call, not taken from the cache.
Computed(fn) == Returned(fn) /\ ret.computed = ret.at

KeyRecords(k) ==
    SelectSeq(mileage_worksheet,
              LAMBDA r : r.Username = k[1] /\ r.Vehicle_Type = k[2])

\* The float sum of the distances of a sequence of records, left to right.
RECURSIVE FSum(_)
FSum(s) ==
    IF s = << >> THEN 0
    ELSE FAdd(FSum(SubSeq(s, 1, Len(s) - 1)), s[Len(s)].Distance_Driven_KM)

\* The records of s from date d on.
Since(s, d) == SelectSeq(s, LAMBDA r : r.Date_of_Drive >= d)

\* The records of s in the order of the walk: most recent date first, records
\* of one date in the order of s.
WalkOrder(s) ==
    LET n == Len(s)
        p == CHOOSE f \in [1..n -> 1..n] :
                 /\ \A i, j \in 1..n : i # j => f[i] # f[j]
                 /\ \A i, j \in 1..n : i < j =>
                        \/ s[f[i]].Date_of_Drive > s[f[j]].Date_of_Drive
                        \/ /\ s[f[i]].Date_of_Drive = s[f[j]].Date_of_Drive
                           /\ f[i] < f[j]
    IN  [i \in 1..n |-> s[p[i]]]

Dates(s) == {s[i].Date_of_Drive : i \in 1..Len(s)}

Max(S) == CHOOSE x \in S : \A y \in S : y <= x

\* The dates d of s such that the records dated d or later reach 2.0.
ReachingDates(s) ==
    {d \in Dates(s) : FSum(Since(WalkOrder(s), d)) >= CURRENCY_THRESHOLD}

\* The sum of one column of the platoon groups.
RECURSIVE SumOver(_, _)
SumOver(g, column) ==
    IF DOMAIN g = {} THEN 0
    ELSE LET pl == CHOOSE x \in DOMAIN g : TRUE
         IN  g[pl][column] + SumOver([x \in DOMAIN g \ {pl} |-> g[x]], column)

\* The rows of Fitness_Tracker of user u, as indices, and the weight of a
\* row, 0 when the cell holds no number.
Workouts(u) ==
    {i \in 1..Len(fitness_tracker) : strip(fitness_tracker[i].Username) = u}

Dated(i) == "date" \in DOMAIN fitness_tracker[i].Date

WeightOf(i) ==
    IF "num" \in DOMAIN fitness_tracker[i].Weight
    THEN fitness_tracker[i].Weight.num ELSE 0

\* The permutations of the log.
Reorderings(n) ==
    {f \in [1..n -> 1..n] : \A i, j \in 1..n : i # j => f[i] # f[j]}

Permuted(s, f) == [i \in 1..Len(s) |-> s[f[i]]]

\* The records of key k whose date, as the datetime at 00:00:00, lies between
\* t - 90 days and t.
InWindow(k, t) ==
    SelectSeq(KeyRecords(k),
              LAMBDA r : /\ strptime(r.Date_of_Drive) >= t - timedelta(WindowDays)
                         /\ strptime(r.Date_of_Drive) <= t)

\* The records of key k dated at most 90 days before the calendar date of t.
InDateWindow(k, t) ==
    SelectSeq(KeyRecords(k),
              LAMBDA r : r.Date_of_Drive >= strftime(t) - WindowDays)

(***************************************************************************)
(* C1.  A computation of calculate_3_month_distance at the instant now     *)
(* returns exactly the sum of the distances of the records of that user    *)
(* and vehicle type whose date lies in the 90 days ending at now; records  *)
(* of another user or vehicle type and records older than the window       *)
(* contribute nothing.                                                     *)
(***************************************************************************)
C1_WindowDistance ==
    Returned("distance") => ret.data = FSum(InWindow(ret.key, ret.computed))

\* A computation that leaves out an old record of the key and a record of
\* another key and stays under the threshold, though the whole log reaches it.
C1_Witness ==
    /\ Computed("distance")
    /\ Len(KeyRecords(ret.key)) > Len(InWindow(ret.key, ret.at))
    /\ Len(mileage_worksheet) > Len(KeyRecords(ret.key))
    /\ ret.data < CURRENCY_THRESHOLD
    /\ FSum(mileage_worksheet) >= CURRENCY_THRESHOLD

C4_LapseAtExpiryDate ==
    Returned("distance") =>
        LET e == expiry_body(mileage_worksheet, ret.key[1], ret.key[2])
        IN  /\ (ret.before = "CURRENT" /\ e # NA /\ strftime(ret.at) <= e.date)
                   => is_current(ret.data)
            /\ (ret.before = "CURRENT" /\ e # NA /\ strftime(ret.at) > e.date)
                   => ~is_current(ret.data)
            /\ ret.before = "NOT_CURRENT" => ~is_current(ret.data)

(***************************************************************************)
(* C5.  Every call returns the value computed from the log as it is at the *)
(* call and with now the instant of the call: a value computed at an       *)
(* earlier instant is never returned in its place.                         *)
(***************************************************************************)
C5_FreshOnEveryQuery ==
    /\ Returned("distance") =>
           ret.data = distance_body(mileage_worksheet, ret.key[1], ret.key[2],
                                    ret.at)
    /\ Returned("expiry") =>
           ret.data = expiry_body(mileage_worksheet, ret.key[1], ret.key[2])

(***************************************************************************)
(* C6.  For a user and vehicle type with no records every call returns the *)
(* no-data result: a window distance of 0, which is not current, and the   *)
(* expiry date "N/A".                                                      *)
(***************************************************************************)
C6_NoData ==
    (ret # None /\ KeyRecords(ret.key) = << >>) =>
        /\ ret.fn = "distance" => ret.data = 0 /\ ~is_current(ret.data)
        /\ ret.fn = "expiry" => ret.data = NA

\* A call for a key without records, late in the run, on a log that holds
\* records of other keys.
C6_Witness ==
    /\ ret # None
    /\ KeyRecords(ret.key) = << >>
    /\ mileage_worksheet # << >>
    /\ strftime(ret.at) >= WindowDays

(***************************************************************************)
(* C7.  calculate_expiry_date returns "N/A" when the total of all the      *)
(* records of the user and vehicle type stays below 2.0, and only then:    *)
(* whenever an anchor exists the value is a date, which is never "N/A".    *)
(***************************************************************************)
C7_SentinelIffNoAnchor ==
    Returned("expiry") =>
        LET w == WalkOrder(KeyRecords(ret.key))
        IN  /\ ret.data = NA <=> FSum(w) < CURRENCY_THRESHOLD
            /\ ret.data # NA =>
                   \E d \in Dates(w) : ret.data = DateString(d + ValidityDays)

\* Records exist but their total stays below 2.0.
C7_Witness ==
    /\ Computed("expiry")
    /\ Len(KeyRecords(ret.key)) >= 2
    /\ FSum(WalkOrder(KeyRecords(ret.key))) < CURRENCY_THRESHOLD
    /\ ret.data = NA

(***************************************************************************)
(* C8.  The window is date-granular with an inclusive lower bound: a       *)
(* computation at any time of day sums the records dated at most 90 days   *)
(* before the calendar date of now, the record dated exactly 90 days       *)
(* before included.                                                        *)
(***************************************************************************)
C8_DateGranularWindow ==
    Computed("distance") => ret.data = FSum(InDateWindow(ret.key, ret.at))

(***************************************************************************)
(* C9.  The window distance and the expiry date depend only on the         *)
(* multiset of the records: every reordering of the log gives the value    *)
(* that was returned.                                                      *)
(***************************************************************************)
C9_OrderIndependent ==
    \A f \in Reorderings(Len(mileage_worksheet)) :
        /\ Computed("distance") =>
               ret.data = distance_body(Permuted(mileage_worksheet, f),
                                        ret.key[1], ret.key[2], ret.at)
        /\ Computed("expiry") =>
               ret.data = expiry_body(Permuted(mileage_worksheet, f),
                                      ret.key[1], ret.key[2])

(***************************************************************************)
(* C10.  The anchor is searched over the whole history: when the records   *)
(* of the last 90 days do not reach 2.0 but the history does, the expiry   *)
(* date is a date, in the past, and not "N/A"; when all the records are    *)
(* older than 90 days the window distance is 0 and not current.            *)
(***************************************************************************)
C10_AnchorOverWholeHistory ==
    ret # None =>
        LET w == WalkOrder(KeyRecords(ret.key))
            today == strftime(ret.at)
        IN  /\ (/\ ret.fn = "expiry"
                /\ FSum(w) >= CURRENCY_THRESHOLD
                /\ FSum(Since(w, today - WindowDays)) < CURRENCY_THRESHOLD)
                   => ret.data # NA /\ ret.data.date < today
            /\ (/\ ret.fn = "distance"
                /\ \A d \in Dates(w) : d < today - WindowDays)
                   => ret.data = 0 /\ ~is_current(ret.data)

\* The only drive that reaches the threshold is older than 90 days: the
\* expiry date is known and past.
C10_Witness ==
    /\ Computed("expiry")
    /\ KeyRecords(ret.key) # << >>
    /\ \A d \in Dates(KeyRecords(ret.key)) : d < strftime(ret.at) - WindowDays
    /\ ret.data # NA
    /\ ret.data.date < strftime(ret.at)

(***************************************************************************)
(* C11.  In the team summary a status counts as expiring soon exactly when *)
(* it is current and its days to expiry are a number from 0 to 14: 14      *)
(* counts, 15 does not, a current status with negative days to expiry does *)
(* not.                                                                    *)
(***************************************************************************)
C11_ExpiringSoon ==
    (Returned("team") /\ ret.data # None) =>
        ret.data.expiring_soon =
            Len(SelectSeq(ret.personnel,
                    LAMBDA p : /\ upper(p.currency_status) = "YES"
                               /\ "num" \in DOMAIN p.days_to_expiry
                               /\ 0 <= p.days_to_expiry.num
                               /\ p.days_to_expiry.num <= ExpiringSoonDays))

(***************************************************************************)
(* C12.  The per-platoon counts of the team overview add up to the counts  *)
(* over the whole list: the Current column sums to current_count and the   *)
(* Total column to total_personnel, whatever the platoons of the statuses. *)
(***************************************************************************)
C12_PartitionInvariant ==
    (Returned("team") /\ ret.data # None) =>
        LET g == ret.data.platoon_groups
        IN  /\ SumOver(g, "Current") = ret.data.current_count
            /\ SumOver(g, "Total") = ret.data.total_personnel
            /\ ret.data.total_personnel = Len(ret.personnel)
            /\ ret.data.current_count =
                   Cardinality({i \in 1..Len(ret.personnel) :
                                   upper(ret.personnel[i].currency_status) = "YES"})

\* Statuses of three platoons, one of them the platoon without a name, with
\* current statuses in two of them.
C12_Witness ==
    /\ Returned("team")
    /\ ret.data # None
    /\ Cardinality(DOMAIN ret.data.platoon_groups) = 3
    /\ Cardinality({pl \in DOMAIN ret.data.platoon_groups :
                       ret.data.platoon_groups[pl].Current > 0}) >= 2
    /\ ret.data.current_count < ret.data.total_personnel

(***************************************************************************)
(* C13.  The two calculations are deterministic in the log, the key and    *)
(* now: all the calls made for one key while the log and the clock stay    *)
(* the same return the same window distance, hence the same currency flag, *)
(* and the same expiry date, whatever was called before.                   *)
(***************************************************************************)
C13_Deterministic ==
    \A a, b \in answered : (a.fn = b.fn /\ a.key = b.key) => a.data = b.data

C15_AppendOnly ==
    [][/\ Len(mileage_worksheet') >= Len(mileage_worksheet)
       /\ Len(mileage_worksheet') <= Len(mileage_worksheet) + 1
       /\ SubSeq(mileage_worksheet', 1, Len(mileage_worksheet)) = mileage_worksheet
       /\ mileage_worksheet' # mileage_worksheet =>
              /\ terrex_worksheet' = terrex_worksheet
              /\ belrex_worksheet' = belrex_worksheet]_vars

\* A row was added after a row that differs from it, and both are there.
C15_Witness ==
    /\ Len(mileage_worksheet) = 2
    /\ mileage_worksheet[1] # mileage_worksheet[2]
    /\ submitted # None
    /\ submitted.message = ""
    /\ submitted.Username = mileage_worksheet[2].Username
    /\ terrex_worksheet = TerrexRoster

(***************************************************************************)
(* C16.  A row that the mileage form appends has as distance the final     *)
(* reading minus the initial one, which is positive, a date that is not    *)
(* after the day of the submission and a vehicle type for which the user   *)
(* is qualified; a submission with a missing reading, with a final reading *)
(* that is not above the initial one, with a later date or with another    *)
(* vehicle type appends nothing.                                           *)
(***************************************************************************)
C16_CaptureInvariants ==
    [][submitted' # None =>
           LET f == submitted'
               n == Len(mileage_worksheet')
               violating ==
                   \/ f.Initial_Mileage_KM = NoReading
                   \/ f.Final_Mileage_KM = NoReading
                   \/ f.Final_Mileage_KM <= f.Initial_Mileage_KM
                   \/ f.Date_of_Drive > strftime(now')
                   \/ f.Vehicle_Type \notin check_user_qualifications(f.Username)
           IN  /\ n > Len(mileage_worksheet) =>
                      LET r == mileage_worksheet'[n]
                      IN  /\ ~violating
                          /\ r.Distance_Driven_KM =
                                 FSub(FloatOfTenths(f.Final_Mileage_KM),
                                      FloatOfTenths(f.Initial_Mileage_KM))
                          /\ r.Distance_Driven_KM > 0
                          /\ r.Date_of_Drive = f.Date_of_Drive
                          /\ r.Date_of_Drive <= strftime(now')
                          /\ r.Username = f.Username
                          /\ r.Vehicle_Type = f.Vehicle_Type
                          /\ r.Vehicle_Type \in check_user_qualifications(r.Username)
               /\ violating => mileage_worksheet' = mileage_worksheet]_vars

\* A submission was accepted and its row is there, and the submission after
\* it, with a final reading that is not above the initial one, added nothing.
C16_Witness ==
    /\ Len(mileage_worksheet) = 1
    /\ mileage_worksheet[1].Date_of_Drive < strftime(now)
    /\ mileage_worksheet[1].Distance_Driven_KM = FSub(FloatOfTenths(20), FloatOfTenths(7))
    /\ submitted # None
    /\ submitted.message # ""
    /\ submitted.Initial_Mileage_KM # NoReading
    /\ submitted.Final_Mileage_KM # NoReading
    /\ submitted.Final_Mileage_KM <= submitted.Initial_Mileage_KM

C18_MaxAllTime ==
    Returned("fitness") =>
        \A u \in DOMAIN ret.data :
            ret.data[u].max_weight_lifted =
                Max({0} \cup {WeightOf(i) : i \in Workouts(u)})

(***************************************************************************)
(* C19.  recent_prs of a user counts the rows whose weight is within 5% of *)
(* the largest weight of the rows of that user dated before them, and does *)
(* not depend on the order of the rows in the sheet.                       *)
(***************************************************************************)
C19_PersonalRecords ==
    Returned("fitness") =>
        \A u \in DOMAIN ret.data :
            LET before(i) == {j \in Workouts(u) :
                                 /\ Dated(j)
                                 /\ fitness_tracker[j].Date.date
                                        < fitness_tracker[i].Date.date}
                prs == {i \in Workouts(u) :
                           /\ Dated(i)
                           /\ WeightOf(i) > 0
                           /\ 100 * WeightOf(i) >
                                  95 * Max({0} \cup {WeightOf(j) : j \in before(i)})}
            IN  /\ ret.data[u].recent_prs = Cardinality(prs)
                /\ \A f \in Reorderings(Len(fitness_tracker)) :
                       get_all_fitness_data_body(Permuted(fitness_tracker, f),
                                                 ret.at)[u].recent_prs
                           = ret.data[u].recent_prs

(***************************************************************************)
(* C20.  Once a submission has been appended, no cache serves an entry     *)
(* that was filled before it: after the step that appends the row, neither *)
(* the st.cache_data entries of the two calculations and of                *)
(* get_all_personnel_status nor the session_cache entry of the team        *)
(* overview, in any session, holds an entry that a query would be answered *)
(* from.                                                                   *)
(***************************************************************************)
C20_FreshAfterAppend ==
    [][Len(mileage_worksheet') > Len(mileage_worksheet) =>
           /\ \A k \in Keys : ~cache_hit(cache_distance', k, now')
           /\ \A k \in Keys : ~cache_hit(cache_expiry', k, now')
           /\ ~entry_hit(cache_personnel', now', PersonnelTTL)
           /\ \A u \in Users :
                  ~entry_hit(cleanup_session_memory(session_cache'[u], now'),
                             now', SessionCacheTTL)]_vars

(***************************************************************************)
(* C21.  A record whose date or distance does not parse is skipped by both *)
(* calculations: the window distance and the expiry date are the values    *)
(* computed from the log without the records that do not parse.            *)
(***************************************************************************)
C21_MalformedSkipped ==
    LET parsed == SelectSeq(mileage_worksheet,
                            LAMBDA r : /\ r.Date_of_Drive # BadDate
                                       /\ r.Distance_Driven_KM # BadDistance)
    IN  /\ Computed("distance") =>
               ret.data = distance_body(parsed, ret.key[1], ret.key[2], ret.at)
        /\ Computed("expiry") =>
               ret.data = expiry_body(parsed, ret.key[1], ret.key[2])

\* The logged rows of the tracking sheet; none while the sheet does not exist.
TrackingRows(sheet) == IF sheet = None THEN << >> ELSE sheet

\* C22: a call of log_fitness_data that logs a session keeps every row that
\* was logged earlier and adds the session's row below them, so that n
\* logging calls leave n rows.
C22_HistoryKept ==
    [][LET old == TrackingRows(tracking_sheet)
           new == TrackingRows(tracking_sheet')
       IN  new # << >> /\ new # old =>
               /\ Len(new) = Len(old) + 1
               /\ SubSeq(new, 1, Len(old)) = old]_vars

\* The admitted requests of a user that are less than a minute old at time t.
RecentAdmitted(limits, user_id, t) ==
    Cardinality({i \in 1..Len(limits[user_id]) : t - limits[user_id][i] < RateWindow})

RecentRuns(t) == SelectSeq(requests_made, LAMBDA req : t - req < LoadWindow)

\* More than 50 users on the monitor's list or more than 200 runs.
UnderLoad(active_users, t) ==
    \/ Cardinality(active_users) > UserThreshold
    \/ Len(RecentRuns(t)) > RequestThreshold

\* C24: a run of the script that comes more than 30 seconds after the last
\* load check sets high_load_mode to true when more than 50 users were
\* active or more than 200 requests were made in the last 5 minutes, and to
\* false when neither holds; and while high_load_mode is true the run of a
\* logged-in user passes through check_rate_limit.
C24_HighLoadDetected ==
    [][requests_made' # requests_made =>
         /\ now - load_monitor.last_check > CheckInterval =>
                load_monitor'.high_load_mode =
                    UnderLoad(load_monitor'.active_users, now)
         /\ (session_state.logged_in /\ load_monitor'.high_load_mode) =>
                ret'.rate_limited]_vars

C26_NoOverwrite ==
    (Returned("safe_initialize_missing_users") \/ Returned("create_user")) =>
        \A u \in DOMAIN ret.before :
            u \in DOMAIN credentials /\ credentials[u] = ret.before[u]

\* The initialisation adds driver1 while trooper1, whose password was
\* changed before, is on the sheet too.
C26_Witness ==
    /\ Returned("safe_initialize_missing_users")
    /\ "driver1" \in DOMAIN credentials \ DOMAIN ret.before
    /\ credentials["trooper1"].format = "dict"

C28_RoleGating ==
    Returned("main_app") =>
        /\ ret.data = "Account Management" => is_admin_user(ret.key)
        /\ ret.data = "Team Overview" =>
               is_admin_user(ret.key) \/ is_commander_user(ret.key)

\* C29: an account leaves the credential store only by Confirm Delete for
\* the account that Delete Account was last pressed for, never a built-in
\* account or admin; and every press of Delete Account on a deletable
\* account makes the confirmation pending.
C29_DeleteProtocol ==
    [][/\ \A u \in DOMAIN credentials \ DOMAIN credentials' :
              /\ ret'.fn = "Confirm Delete" /\ ret'.key = u
              /\ delete_requested = u
              /\ u \notin ProtectedAccounts \cup {"admin"}
       /\ (ret' # None /\ ret'.fn = "Delete Account" /\ ret' # ret) =>
              session_state'.confirm_delete = [flag |-> TRUE]]_vars
====
